---- MODULE Spec2Model ----
(***************************************************************************)
(* Model of care.utils.assetintegration.usage_manager.UsageManager: the    *)
(* exclusive camera-access coordinator. One asset (resource id) is         *)
(* modelled; the two cache keys of that asset are the shared state:        *)
(*   onvif_current_user:<asset>  -> holder, ttl   (django cache, 5 min TTL) *)
(*   onvif_waiting_list:<asset>  -> wl            (raw redis list)          *)
(* Concurrent request handlers are the threads; every cache / redis / ORM  *)
(* round trip of a method is one atomic step of the thread running it.     *)
(*                                                                         *)
(* Second part: config.authentication.MiddlewareAuthentication and         *)
(* ABDMAuthentication, the two schemes that provision a User for the       *)
(* caller. Shared state is the User table (arows); the handlers are the    *)
(* same threads. AuthSpec runs the authentication handlers, Spec the       *)
(* coordinator's methods.                                                  *)
(***************************************************************************)
EXTENDS Integers, Sequences, FiniteSets

\* ------------------------------------------------------------------ bounds
NumUsers == 3
NumThreads == 2
MaxWaiting == 2
MaxDeleted == 1
MaxHeaderLen == 5
AuthHeaderLen == 3

\* cache.set(..., timeout=60 * 5): the lease, in minutes
LeaseMinutes == 5

\* Python None (an absent cache key, an empty .first()); user ids are 1..NumUsers
None == 0

Users == 1..NumUsers

\* The rows that may disappear: ids are interchangeable (nothing in the code
\* or the model depends on their order), so these are taken to be the lowest
Deletable == 1..MaxDeleted
Threads == 1..NumThreads

VARIABLES
    users,    \* ids of the rows User.objects can resolve
    holder,   \* value under current_user_cache_key, None when absent/expired
    ttl,      \* minutes left before the cache evicts current_user_cache_key
    wl,       \* the redis list under waiting_list_cache_key (byte strings)
    pc,       \* per thread: the next step of the method it runs
    op,       \* per thread: the public method that was called
    usr,      \* per thread: self.user.id
    cur,      \* per thread: local current_user
    found,    \* per thread: result of the membership test of lines 21-23
    last,     \* history: what the step just taken did, as its caller and the push
              \*          receivers see it: op, usr (the call it belongs to), ret (the
              \*          value returned or the exception raised, "running" if the call
              \*          goes on), out (the send_webpush calls made), removed (what
              \*          LREM answered), cleared (the call has deleted the holder key)
    owner,    \* history: the user whose acquire last returned True, until it
              \*          calls release, its lease runs out or its row is deleted
    lapsed,   \* history: the holder whose key the cache evicted on timeout, until
              \*          the key is set again (None otherwise)
    scen,     \* history: how far the run so far is exactly the calls, one after
              \*          the other, acquire(a); request_access(b); release(a)
    arows,    \* the User rows the authentication schemes have saved
    apc,      \* per thread: the next step of the authenticate() it runs
    areq,     \* per thread: locals of authenticate(): facility, token["asset_id"]
    alast     \* history: what the authentication step just taken did: scheme,
              \*          header (the Authorization header it was given), ret (the
              \*          value returned or the exception raised, "running" if the
              \*          call goes on), detail, user (the row returned), wrote (a
              \*          row was saved), facility, asset, exc (what the key fetch
              \*          and token verification raised)

umvars == <<users, holder, ttl, wl, pc, op, usr, cur, found, last, owner, lapsed, scen>>
authvars == <<arows, apc, areq, alast>>
vars == <<users, holder, ttl, wl, pc, op, usr, cur, found, last, owner, lapsed, scen,
          arows, apc, areq, alast>>

\* ------------------------------------------------------- values and encoding
\* redis-py sends an int argument as its decimal byte string and lrange
\* returns the stored byte strings: rpush(key, 5) stores b"5".
Encode(uid) == [bytes |-> uid]

\* int(b"5") == 5: what the ORM does with the byte strings in id__in
Decode(b) == b.bytes

\* Python ==, int against bytes: always False (5 == b"5" is False)
PyEqIntBytes(uid, b) == FALSE

\* `self.user.id in <lrange result>`: list membership by ==
PyIn(uid, list) == \E i \in DOMAIN list : PyEqIntBytes(uid, list[i])

\* redis LREM key 0 value: every element equal to the encoded value goes
LRem(list, uid) == SelectSeq(list, LAMBDA e : e # Encode(uid))

Count(list, uid) == Cardinality({i \in DOMAIN list : list[i] = Encode(uid)})

\* The orders a queryset without order_by may come back in
Perms(S) == {s \in [1..Cardinality(S) -> S] : \A i, j \in DOMAIN s : i # j => s[i] # s[j]}

\* list(User.objects.filter(id__in=asset_queue)): the resolvable users among
\* the queued ids, each once, in database order
QuerySets(list) == Perms({Decode(list[i]) : i \in DOMAIN list} \cap users)

Push(uid, action) == [to |-> uid, action |-> action]

\* `last` after a step that returns nothing, pushes nothing and deletes nothing
NoCall == [op |-> "none", usr |-> None, ret |-> "running", out |-> <<>>, removed |-> 0, cleared |-> FALSE]

\* No local of authenticate() is set / no authentication step was taken
NoReq == [facility |-> "", asset |-> ""]
NoAuth == [scheme |-> "none", header |-> [present |-> FALSE, bytes |-> <<>>], ret |-> "running",
           detail |-> "", user |-> [username |-> <<>>, asset |-> ""], wrote |-> FALSE,
           facility |-> "", asset |-> "", exc |-> ""]

Init ==
    /\ users = Users
    /\ holder = None
    /\ ttl = 0
    /\ wl = <<>>
    /\ pc = [t \in Threads |-> "idle"]
    /\ op = [t \in Threads |-> "none"]
    /\ usr = [t \in Threads |-> None]
    /\ cur = [t \in Threads |-> None]
    /\ found = [t \in Threads |-> FALSE]
    /\ last = NoCall
    /\ owner = None
    /\ lapsed = None
    /\ scen = [n |-> 0, a |-> None, b |-> None, pushed |-> <<>>]
    /\ arows = {}
    /\ apc = [t \in Threads |-> "idle"]
    /\ areq = [t \in Threads |-> NoReq]
    /\ alast = NoAuth

\* --------------------------------------------------------- thread plumbing
Goto(t, label) == pc' = [pc EXCEPT ![t] = label]

\* UsageManager(asset_id, request.user).<m>() is entered by an idle handler
\* on behalf of user u and has run up to `label`
Begin(t, m, u, label) ==
    /\ pc[t] = "idle"
    /\ op' = [op EXCEPT ![t] = m]
    /\ usr' = [usr EXCEPT ![t] = u]
    /\ Goto(t, label)

\* The handler is free again
Free(t) ==
    /\ pc' = [pc EXCEPT ![t] = "idle"]
    /\ op' = [op EXCEPT ![t] = "none"]
    /\ usr' = [usr EXCEPT ![t] = None]
    /\ cur' = [cur EXCEPT ![t] = None]
    /\ found' = [found EXCEPT ![t] = FALSE]

\* Method m called for user u returns (or raises) after making `pushes`
ReturnOf(t, m, u, result, pushes) ==
    /\ last' = [NoCall EXCEPT !.op = m, !.usr = u, !.ret = result, !.out = pushes]
    /\ Free(t)

Return(t, result, pushes) == ReturnOf(t, op[t], usr[t], result, pushes)

\* scen after a step of thread t: n counts the calls of the scenario that have
\* returned (-1: the run is not the scenario), pushed are the pushes of the
\* call in progress
ScenOff == [n |-> -1, a |-> None, b |-> None, pushed |-> <<>>]

Track(t) ==
    LET done == pc'[t] = "idle"
        m == IF pc[t] = "idle" /\ done THEN last'.op ELSE IF done THEN op[t] ELSE op'[t]
        u == IF pc[t] = "idle" /\ done THEN last'.usr ELSE IF done THEN usr[t] ELSE usr'[t]
        seen == scen.pushed \o last'.out
    IN  IF scen.n \in {-1, 3} \/ \E t2 \in Threads \ {t} : pc[t2] # "idle" THEN ScenOff
        ELSE IF scen.n = 0 /\ m = "lock_camera"
          THEN IF done THEN [n |-> 1, a |-> u, b |-> None, pushed |-> <<>>] ELSE scen
        ELSE IF scen.n = 1 /\ m = "request_access" /\ u # scen.a
          THEN IF done THEN [n |-> 2, a |-> scen.a, b |-> u, pushed |-> <<>>] ELSE scen
        ELSE IF scen.n = 2 /\ m = "unlock_camera" /\ u = scen.a
          THEN [scen EXCEPT !.n = IF done THEN 3 ELSE 2, !.pushed = seen]
        ELSE ScenOff

\* ------------------------------------------------------------- lock_camera
\* line 97: the branch taken on the value read from the cache
LockGranted(c, uid) == c = None \/ c = uid

\* lines 95-97: current_user = cache.get(...) and the branch on it;
\* request_access enters lock_camera at once (line 115)
lock_camera_get(t) ==
    /\ \E u \in users, m \in {"lock_camera", "request_access"} :
        Begin(t, m, u, IF LockGranted(holder, u) THEN "lock_set" ELSE "wl_lrange")
    /\ last' = NoCall
    /\ UNCHANGED <<users, holder, ttl, wl, cur, found, owner, lapsed>>
    /\ scen' = Track(t)
    /\ UNCHANGED authvars

\* line 98: cache.set(key, self.user.id, timeout=60 * 5)
lock_camera_set(t) ==
    /\ pc[t] = "lock_set"
    /\ holder' = usr[t]
    /\ ttl' = LeaseMinutes
    /\ lapsed' = None
    /\ Goto(t, "lock_lrem")
    /\ last' = NoCall
    /\ UNCHANGED <<users, wl, op, usr, cur, found, owner>>
    /\ scen' = Track(t)
    /\ UNCHANGED authvars

\* lines 99-100 (and 116): self.remove_from_waiting_list(); return True
lock_camera_lrem(t) ==
    /\ pc[t] = "lock_lrem"
    /\ wl' = LRem(wl, usr[t])
    /\ owner' = usr[t]
    /\ last' = [NoCall EXCEPT !.op = op[t], !.usr = usr[t], !.ret = "True",
                               !.removed = Count(wl, usr[t])]
    /\ Free(t)
    /\ UNCHANGED <<users, holder, ttl, lapsed>>
    /\ scen' = Track(t)
    /\ UNCHANGED authvars

\* lines 21-23 (add_to_waiting_list): self.user.id not in lrange(key, 0, -1)
add_to_waiting_list_lrange(t) ==
    /\ pc[t] = "wl_lrange"
    /\ found' = [found EXCEPT ![t] = PyIn(usr[t], wl)]
    /\ Goto(t, "wl_rpush")
    /\ last' = NoCall
    /\ UNCHANGED <<users, holder, ttl, wl, op, usr, cur, owner, lapsed>>
    /\ scen' = Track(t)
    /\ UNCHANGED authvars

\* lines 23-26 and 103: rpush unless found, llen (unused), lock_camera returns
\* False; request_access goes on to notify the holder (line 118)
add_to_waiting_list_rpush(t) ==
    /\ pc[t] = "wl_rpush"
    /\ IF found[t]
          THEN wl' = wl
          ELSE Len(wl) < MaxWaiting /\ wl' = Append(wl, Encode(usr[t]))
    /\ IF op[t] = "request_access"
          THEN /\ Goto(t, "req_get")
               /\ last' = NoCall
               /\ UNCHANGED <<op, usr, cur, found>>
          ELSE Return(t, "False", <<>>)
    /\ UNCHANGED <<users, holder, ttl, owner, lapsed>>
    /\ scen' = Track(t)
    /\ UNCHANGED authvars

\* ---------------------------------------------------------- request_access
\* lines 72-75 (notify_current_user_on_request_access): re-read the holder
notify_current_user_get(t) ==
    /\ pc[t] = "req_get"
    /\ IF holder = None
          THEN Return(t, "False", <<>>)
          ELSE /\ cur' = [cur EXCEPT ![t] = holder]
               /\ Goto(t, "req_requester")
               /\ last' = NoCall
               /\ UNCHANGED <<op, usr, found>>
    /\ UNCHANGED <<users, holder, ttl, wl, owner, lapsed>>
    /\ scen' = Track(t)
    /\ UNCHANGED authvars

\* lines 77-80: requester = User.objects.filter(id=self.user.id).first()
notify_current_user_requester(t) ==
    /\ pc[t] = "req_requester"
    /\ IF usr[t] \notin users
          THEN Return(t, "False", <<>>)
          ELSE /\ Goto(t, "req_send")
               /\ last' = NoCall
               /\ UNCHANGED <<op, usr, cur, found>>
    /\ UNCHANGED <<users, holder, ttl, wl, owner, lapsed>>
    /\ scen' = Track(t)
    /\ UNCHANGED authvars

\* lines 91-92 and 119: user = User.objects.filter(id=current_user).first();
\* send_webpush(username=user.username, ...). When the holder's row is gone
\* .first() is None and user.username raises AttributeError out of request_access
notify_current_user_send(t) ==
    /\ pc[t] = "req_send"
    /\ IF cur[t] \in users
          THEN Return(t, "False", <<Push(cur[t], "CAMERA_ACCESS_REQUEST")>>)
          ELSE Return(t, "AttributeError", <<>>)
    /\ UNCHANGED <<users, holder, ttl, wl, owner, lapsed>>
    /\ scen' = Track(t)
    /\ UNCHANGED authvars

\* ----------------------------------------------------------- unlock_camera
\* mutant: the ownership test of line 108 left out
IsHolderAlways(c, uid) == TRUE

\* line 108: only the recorded holder clears the key
IsHolder(c, uid) == c = uid

\* lines 106-108: current_user = cache.get(...); if current_user == self.user.id
unlock_camera_get(t) ==
    /\ \E u \in users :
        /\ Begin(t, "unlock_camera", u, IF IsHolder(holder, u) THEN "unlock_delete" ELSE "unlock_skip")
        /\ owner' = IF owner = u THEN None ELSE owner
    /\ last' = NoCall
    /\ UNCHANGED <<users, holder, ttl, wl, cur, found, lapsed>>
    /\ scen' = Track(t)
    /\ UNCHANGED authvars

\* line 109: cache.delete(self.current_user_cache_key)
unlock_camera_delete(t) ==
    /\ pc[t] = "unlock_delete"
    /\ holder' = None
    /\ ttl' = 0
    /\ Goto(t, "notify")
    /\ last' = [NoCall EXCEPT !.op = op[t], !.usr = usr[t], !.cleared = TRUE]
    /\ UNCHANGED <<users, wl, op, usr, cur, found, owner, lapsed>>
    /\ scen' = Track(t)
    /\ UNCHANGED authvars

\* lines 17-18 and 66-67 (notify_waiting_list_on_asset_availabe): lrange,
\* the queryset over its result, one send_webpush per row returned
notify_waiting_list_on_asset_availabe(t) ==
    /\ pc[t] = "notify"
    /\ \E q \in QuerySets(wl) :
        last' = [NoCall EXCEPT !.op = op[t], !.usr = usr[t], !.cleared = TRUE,
                               !.out = [i \in DOMAIN q |-> Push(q[i], "CAMERA_AVAILABILITY")]]
    /\ Goto(t, "unlock_lrem")
    /\ UNCHANGED <<users, holder, ttl, wl, op, usr, cur, found, owner, lapsed>>
    /\ scen' = Track(t)
    /\ UNCHANGED authvars

\* line 112: self.remove_from_waiting_list(); unlock_camera returns None
\* ("unlock_skip": the test of line 108 failed, lines 109-110 were not run)
unlock_camera_lrem(t) ==
    /\ pc[t] \in {"unlock_lrem", "unlock_skip"}
    /\ wl' = LRem(wl, usr[t])
    /\ last' = [NoCall EXCEPT !.op = op[t], !.usr = usr[t], !.ret = "None",
                               !.removed = Count(wl, usr[t]),
                               !.cleared = (pc[t] = "unlock_lrem")]
    /\ Free(t)
    /\ UNCHANGED <<users, holder, ttl, owner, lapsed>>
    /\ scen' = Track(t)
    /\ UNCHANGED authvars

\* -------------------------------------------------------------- has_access
\* mutant: the Unlocked case of line 52 forgotten
HasAccessHolderOnly(c, uid) == c = uid

\* line 52: current_user is None or current_user == self.user.id
HasAccess(c, uid) == c = None \/ c = uid

\* lines 51-52
has_access(t) ==
    /\ pc[t] = "idle"
    /\ \E u \in users :
        ReturnOf(t, "has_access", u, IF HasAccess(holder, u) THEN "True" ELSE "False", <<>>)
    /\ UNCHANGED <<users, holder, ttl, wl, owner, lapsed>>
    /\ scen' = Track(t)
    /\ UNCHANGED authvars

\* ------------------------------------------------------------ current_user
\* lines 37-40: current_user = cache.get(...); None when the key is absent.
\* self.user is not read: the caller is recorded as None
current_user_get(t) ==
    /\ pc[t] = "idle"
    /\ IF holder = None
          THEN ReturnOf(t, "current_user", None, "None", <<>>)
          ELSE /\ Begin(t, "current_user", None, "cu_filter")
               /\ cur' = [cur EXCEPT ![t] = holder]
               /\ last' = NoCall
               /\ UNCHANGED <<found>>
    /\ UNCHANGED <<users, holder, ttl, wl, owner, lapsed>>
    /\ scen' = Track(t)
    /\ UNCHANGED authvars

\* lines 42-48: user = User.objects.filter(id=current_user).first(); the
\* serialized holder is returned when the row exists
current_user_filter(t) ==
    /\ pc[t] = "cu_filter"
    /\ IF cur[t] \in users
          THEN Return(t, "User", <<Push(cur[t], "ROW")>>)
          ELSE /\ Goto(t, "cu_delete")
               /\ last' = NoCall
               /\ UNCHANGED <<op, usr, cur, found>>
    /\ UNCHANGED <<users, holder, ttl, wl, owner, lapsed>>
    /\ scen' = Track(t)
    /\ UNCHANGED authvars

\* lines 45-46: cache.delete(self.current_user_cache_key); return None
current_user_delete(t) ==
    /\ pc[t] = "cu_delete"
    /\ holder' = None
    /\ ttl' = 0
    /\ last' = [NoCall EXCEPT !.op = op[t], !.usr = usr[t], !.ret = "None", !.cleared = TRUE]
    /\ Free(t)
    /\ UNCHANGED <<users, wl, owner, lapsed>>
    /\ scen' = Track(t)
    /\ UNCHANGED authvars

\* -------------------------------------------------------- get_waiting_list
\* lines 17-18: lrange, then list(User.objects.filter(id__in=asset_queue));
\* the rows returned are recorded in the call's pushes with action "ROW".
\* self.user is not read: the caller is recorded as None
get_waiting_list(t) ==
    /\ pc[t] = "idle"
    /\ \E q \in QuerySets(wl) :
        ReturnOf(t, "get_waiting_list", None, "List", [i \in DOMAIN q |-> Push(q[i], "ROW")])
    /\ UNCHANGED <<users, holder, ttl, wl, owner, lapsed>>
    /\ scen' = Track(t)
    /\ UNCHANGED authvars

\* -------------------------------------------------------------- environment
\* mutant: the key is set without a timeout, nothing is ever evicted
LeaseNeverEvicts ==
    /\ holder # None
    /\ lapsed' = holder
    /\ owner' = None
    /\ last' = NoCall
    /\ UNCHANGED <<users, holder, ttl, wl, pc, op, usr, cur, found>>
    /\ scen' = ScenOff
    /\ UNCHANGED authvars

\* mutant: the eviction takes the waiting list with it
LeaseExpiresDropsList ==
    /\ holder # None \/ owner # None
    /\ holder' = None
    /\ ttl' = 0
    /\ wl' = <<>>
    /\ lapsed' = IF holder # None THEN holder ELSE lapsed
    /\ owner' = None
    /\ last' = NoCall
    /\ UNCHANGED <<users, pc, op, usr, cur, found>>
    /\ scen' = ScenOff
    /\ UNCHANGED authvars

\* Time passes until the timeout of line 98 has run out for every lease
\* taken so far: the cache evicts current_user_cache_key if it is present
LeaseExpires ==
    /\ holder # None \/ owner # None
    /\ holder' = None
    /\ ttl' = 0
    /\ lapsed' = IF holder # None THEN holder ELSE lapsed
    /\ owner' = None
    /\ last' = NoCall
    /\ UNCHANGED <<users, wl, pc, op, usr, cur, found>>
    /\ scen' = ScenOff
    /\ UNCHANGED authvars

\* A user row disappears from User.objects (the case lines 44-46 and 79-80
\* provide for)
DeleteUser ==
    /\ \E u \in users \cap Deletable :
        /\ users' = users \ {u}
        /\ owner' = IF owner = u THEN None ELSE owner
    /\ last' = NoCall
    /\ UNCHANGED <<holder, ttl, wl, pc, op, usr, cur, found, lapsed>>
    /\ scen' = ScenOff
    /\ UNCHANGED authvars

Step(t) ==
    \/ lock_camera_get(t)
    \/ lock_camera_set(t)
    \/ lock_camera_lrem(t)
    \/ add_to_waiting_list_lrange(t)
    \/ add_to_waiting_list_rpush(t)
    \/ notify_current_user_get(t)
    \/ notify_current_user_requester(t)
    \/ notify_current_user_send(t)
    \/ unlock_camera_get(t)
    \/ unlock_camera_delete(t)
    \/ notify_waiting_list_on_asset_availabe(t)
    \/ unlock_camera_lrem(t)
    \/ has_access(t)
    \/ current_user_get(t)
    \/ current_user_filter(t)
    \/ current_user_delete(t)
    \/ get_waiting_list(t)

Next ==
    \/ \E t \in Threads : Step(t)
    \/ LeaseExpires
    \/ DeleteUser

Spec == Init /\ [][Next]_vars

\* ======================================================= config.authentication
\* --------------------------------------------------------------------- inputs
\* An Authorization header value is a byte string, here a string of atoms: a
\* blank, the scheme word, or some other run of non-blank bytes
SP == " "
Atoms == {SP, "Middleware_Bearer", "tok"}

\* get_header(request): None when the request has no Authorization header
HeadersUpTo(n) ==
    {[present |-> FALSE, bytes |-> <<>>]}
        \cup {[present |-> TRUE, bytes |-> b] : b \in UNION {[1..k -> Atoms] : k \in 0..n}}

\* The headers tried where the header is the subject, and those tried where
\* the requests run against each other (none, malformed, refused, well-formed)
Headers == HeadersUpTo(MaxHeaderLen)
AuthHeaders == HeadersUpTo(AuthHeaderLen)

\* line 75: auth_header_type.encode(HTTP_HEADER_ENCODING), as one word
auth_header_type_bytes == <<"Middleware_Bearer">>

\* bytes.split(): the maximal runs of non-blank bytes, in order
RECURSIVE Split(_)
Split(b) ==
    IF b = <<>> THEN <<>>
    ELSE LET front == SubSeq(b, 1, Len(b) - 1)
             x == b[Len(b)]
             r == Split(front)
         IN  IF x = SP THEN r
             ELSE IF front # <<>> /\ front[Len(front)] # SP
                  THEN [r EXCEPT ![Len(r)] = Append(@, x)]
                  ELSE Append(r, <<x>>)

\* The X-Facility-Id header: "F9" is no Facility row, Absent is no header
Absent == "<absent>"
Facilities == {"F1", "F2", "F3"}
FacilityIds == Facilities \cup {"F9"}

\* facility.middleware_address: F3 is not connected to a middleware
middleware_address == [f \in Facilities |-> IF f = "F3" THEN "" ELSE "mw"]

\* Asset rows and asset_obj.current_location.facility; "A9" is no Asset row
Assets == {"A1", "A2"}
AssetIds == Assets \cup {"A9"}
AssetFacility == [a \in Assets |-> IF a = "A1" THEN "F1" ELSE "F2"]

\* What open_id_authenticate can raise: requests.get (line 78), .json() and
\* ["keys"][0] (line 79), from_jwk (line 80), jwt.decode (line 81)
Exceptions ==
    {"ConnectionError", "JSONDecodeError", "KeyError", "InvalidKeyError",
     "InvalidSignatureError", "ExpiredSignatureError"}

\* What open_id_authenticate does for a url and a raw token: it raises, or
\* returns the claims of the token, with or without an asset_id
OpenIdOutcomes ==
    {[exc |-> e, asset_id |-> Absent] : e \in Exceptions}
        \cup {[exc |-> "", asset_id |-> a] : a \in AssetIds \cup {Absent}}

\* settings.ABDM_USERNAME
ABDM_USERNAME == <<"abdm">>

\* ------------------------------------------------------------------ plumbing
AGoto(t, label) == apc' = [apc EXCEPT ![t] = label]

\* authenticate() returns or raises: its locals are gone
AReturn(t, rec) ==
    /\ alast' = rec
    /\ apc' = [apc EXCEPT ![t] = "idle"]
    /\ areq' = [areq EXCEPT ![t] = NoReq]

Raise(scheme, exception, detail) ==
    [NoAuth EXCEPT !.scheme = scheme, !.ret = exception, !.detail = detail]

\* ------------------------------------------------ MiddlewareAuthentication
\* mutant: a header of the scheme with the wrong number of parts is passed
\* over instead of refused
get_raw_token_lenient(header) ==
    LET parts == Split(header)
    IN  IF Len(parts) = 0 THEN [kind |-> "None", token |-> <<>>]
        ELSE IF parts[1] # auth_header_type_bytes THEN [kind |-> "None", token |-> <<>>]
        ELSE IF Len(parts) # 2 THEN [kind |-> "None", token |-> <<>>]
        ELSE [kind |-> "token", token |-> parts[2]]

\* lines 113-134
get_raw_token(header) ==
    LET parts == Split(header)
    IN  IF Len(parts) = 0 THEN [kind |-> "None", token |-> <<>>]
        ELSE IF parts[1] # auth_header_type_bytes THEN [kind |-> "None", token |-> <<>>]
        ELSE IF Len(parts) # 2 THEN [kind |-> "AuthenticationFailed", token |-> <<>>]
        ELSE [kind |-> "token", token |-> parts[2]]

\* lines 87-92: header = self.get_header(request); raw_token =
\* self.get_raw_token(header); None when either is None
authenticate_header(t, h) ==
    LET raw == get_raw_token(h.bytes)
        rec == [NoAuth EXCEPT !.scheme = "middleware", !.header = h]
    IN  IF ~h.present \/ raw.kind = "None"
          THEN AReturn(t, [rec EXCEPT !.ret = "None"])
        ELSE IF raw.kind = "AuthenticationFailed"
          THEN AReturn(t, [rec EXCEPT !.ret = "AuthenticationFailed",
                                      !.detail = "bad_authorization_header"])
        ELSE /\ alast' = rec
             /\ AGoto(t, "mw_facility")
             /\ areq' = areq

\* A handler is given a request for the middleware scheme
authenticate(t) ==
    /\ apc[t] = "idle"
    /\ \E h \in AuthHeaders : authenticate_header(t, h)
    /\ UNCHANGED <<arows>>
    /\ UNCHANGED umvars

\* lines 92-107: the X-Facility-Id header, Facility.objects.get(external_id=...)
\* and the facility's middleware address
authenticate_facility(t) ==
    /\ apc[t] = "mw_facility"
    /\ \E fh \in FacilityIds \cup {Absent} :
        IF fh = Absent
          THEN AReturn(t, [NoAuth EXCEPT !.scheme = "middleware", !.ret = "None"])
        ELSE IF fh \notin Facilities
          THEN AReturn(t, Raise("middleware", "InvalidToken", "Invalid Facility"))
        ELSE IF middleware_address[fh] = ""
          THEN AReturn(t, [Raise("middleware", "InvalidToken", "Facility not connected to a middleware")
                              EXCEPT !.facility = fh])
        ELSE /\ areq' = [areq EXCEPT ![t].facility = fh]
             /\ AGoto(t, "mw_validate")
             /\ alast' = [NoAuth EXCEPT !.scheme = "middleware", !.facility = fh]
    /\ UNCHANGED <<arows>>
    /\ UNCHANGED umvars

\* mutant: only the errors of jwt.decode are caught
MiddlewareCatchesJwtOnly(e) == e \in {"InvalidSignatureError", "ExpiredSignatureError"}

\* line 143: except Exception
MiddlewareCatches(e) == e \in Exceptions

\* lines 109 and 136-146: get_validated_token(open_id_url, raw_token)
get_validated_token(t) ==
    /\ apc[t] = "mw_validate"
    /\ \E o \in OpenIdOutcomes :
        LET rec == [NoAuth EXCEPT !.scheme = "middleware", !.facility = areq[t].facility,
                                  !.exc = o.exc]
        IN  IF o.exc # ""
              THEN IF MiddlewareCatches(o.exc)
                     THEN AReturn(t, [rec EXCEPT !.ret = "InvalidToken",
                                        !.detail = "Given token not valid for any token type"])
                     ELSE AReturn(t, [rec EXCEPT !.ret = o.exc])
              ELSE /\ areq' = [areq EXCEPT ![t].asset = o.asset_id]
                   /\ AGoto(t, "mw_get_user")
                   /\ alast' = [rec EXCEPT !.asset = o.asset_id]
    /\ UNCHANGED <<arows>>
    /\ UNCHANGED umvars

\* mutant: the facility of the asset is not compared
FacilityDiffersNever(asset_facility, facility) == FALSE

\* line 164: asset_obj.current_location.facility != facility
FacilityDiffers(asset_facility, facility) == asset_facility # facility

\* lines 171-181: the User built for an asset
AssetUser(a) == [username |-> <<"asset", a>>, asset |-> a]

\* lines 152-169: asset_id in the token, the Asset row, its facility, and
\* User.objects.filter(asset=asset_obj).first()
get_user(t) ==
    /\ apc[t] = "mw_get_user"
    /\ LET a == areq[t].asset
           f == areq[t].facility
           rec == [NoAuth EXCEPT !.scheme = "middleware", !.facility = f, !.asset = a]
       IN  IF a = Absent
             THEN AReturn(t, [rec EXCEPT !.ret = "InvalidToken",
                                !.detail = "Given token does not contain asset_id"])
           ELSE IF a \notin Assets
             THEN AReturn(t, [rec EXCEPT !.ret = "InvalidToken", !.detail = "Invalid Asset ID"])
           ELSE IF FacilityDiffers(AssetFacility[a], f)
             THEN AReturn(t, [rec EXCEPT !.ret = "InvalidToken",
                                !.detail = "Facility not connected to Asset"])
           ELSE IF \E r \in arows : r.asset = a
             THEN AReturn(t, [rec EXCEPT !.ret = "User",
                                !.user = CHOOSE r \in arows : r.asset = a])
           ELSE /\ AGoto(t, "mw_save")
                /\ alast' = rec
                /\ areq' = areq
    /\ UNCHANGED <<arows>>
    /\ UNCHANGED umvars

\* User.save() of a row whose username or asset another row already has:
\* the unique username and the one-to-one asset link make the insert fail
Conflicts(row) ==
    \E r \in arows : r.username = row.username \/ (row.asset # "" /\ r.asset = row.asset)

\* lines 170-183: asset_user = User(...); asset_user.save(); return asset_user
get_user_save(t) ==
    /\ apc[t] = "mw_save"
    /\ LET row == AssetUser(areq[t].asset)
           rec == [NoAuth EXCEPT !.scheme = "middleware", !.facility = areq[t].facility,
                                 !.asset = areq[t].asset]
       IN  IF Conflicts(row)
             THEN /\ AReturn(t, [rec EXCEPT !.ret = "IntegrityError"])
                  /\ arows' = arows
             ELSE /\ AReturn(t, [rec EXCEPT !.ret = "User", !.user = row, !.wrote = TRUE])
                  /\ arows' = arows \cup {row}
    /\ UNCHANGED umvars

\* ------------------------------------------------------ ABDMAuthentication
\* lines 199-204: request.META.get("HTTP_AUTHORIZATION"); None when absent
abdm_authenticate(t) ==
    /\ apc[t] = "idle"
    /\ \E present \in BOOLEAN :
        IF ~present
          THEN AReturn(t, [NoAuth EXCEPT !.scheme = "abdm", !.ret = "None"])
          ELSE /\ AGoto(t, "abdm_validate")
               /\ alast' = [NoAuth EXCEPT !.scheme = "abdm"]
               /\ areq' = areq
    /\ UNCHANGED <<arows>>
    /\ UNCHANGED umvars

\* line 215: except Exception
ABDMCatches(e) == e \in Exceptions

\* lines 205 and 212-217: get_validated_token(abdm_cert_url, jwt_token)
abdm_get_validated_token(t) ==
    /\ apc[t] = "abdm_validate"
    /\ \E o \in OpenIdOutcomes :
        LET rec == [NoAuth EXCEPT !.scheme = "abdm", !.exc = o.exc]
        IN  IF o.exc # ""
              THEN IF ABDMCatches(o.exc)
                     THEN AReturn(t, [rec EXCEPT !.ret = "InvalidToken",
                                        !.detail = "Invalid Authorization token"])
                     ELSE AReturn(t, [rec EXCEPT !.ret = o.exc])
              ELSE /\ AGoto(t, "abdm_get_user")
                   /\ alast' = rec
                   /\ areq' = areq
    /\ UNCHANGED <<arows>>
    /\ UNCHANGED umvars

\* lines 223-232: the User built for the health exchange
ABDMUser == [username |-> ABDM_USERNAME, asset |-> ""]

\* lines 220-221 and 234: User.objects.filter(username=settings.ABDM_USERNAME).first()
abdm_get_user(t) ==
    /\ apc[t] = "abdm_get_user"
    /\ IF \E r \in arows : r.username = ABDM_USERNAME
         THEN AReturn(t, [NoAuth EXCEPT !.scheme = "abdm", !.ret = "User",
                            !.user = CHOOSE r \in arows : r.username = ABDM_USERNAME])
         ELSE /\ AGoto(t, "abdm_save")
              /\ alast' = [NoAuth EXCEPT !.scheme = "abdm"]
              /\ areq' = areq
    /\ UNCHANGED <<arows>>
    /\ UNCHANGED umvars

\* lines 222-234: user = User(...); user.save(); return user
abdm_get_user_save(t) ==
    /\ apc[t] = "abdm_save"
    /\ IF Conflicts(ABDMUser)
         THEN /\ AReturn(t, [NoAuth EXCEPT !.scheme = "abdm", !.ret = "IntegrityError"])
              /\ arows' = arows
         ELSE /\ AReturn(t, [NoAuth EXCEPT !.scheme = "abdm", !.ret = "User",
                               !.user = ABDMUser, !.wrote = TRUE])
              /\ arows' = arows \cup {ABDMUser}
    /\ UNCHANGED umvars

AuthStep(t) ==
    \/ authenticate(t)
    \/ authenticate_facility(t)
    \/ get_validated_token(t)
    \/ get_user(t)
    \/ get_user_save(t)
    \/ abdm_authenticate(t)
    \/ abdm_get_validated_token(t)
    \/ abdm_get_user(t)
    \/ abdm_get_user_save(t)

AuthNext == \E t \in Threads : AuthStep(t)

AuthSpec == Init /\ [][AuthNext]_vars

\* One handler authenticating middleware requests, over every header
authenticate_any(t) ==
    /\ apc[t] = "idle"
    /\ \E h \in Headers : authenticate_header(t, h)
    /\ UNCHANGED <<arows>>
    /\ UNCHANGED umvars

HeaderNext ==
    \E t \in {1} :
        \/ authenticate_any(t)
        \/ authenticate_facility(t)
        \/ get_validated_token(t)
        \/ get_user(t)
        \/ get_user_save(t)

HeaderSpec == Init /\ [][HeaderNext]_vars

\* ==================================================================== claims
\* Thread t takes this step / thread t's call returns (or raises) in it
Moves(t) == pc'[t] # pc[t]
Returns(t) == pc[t] # "idle" /\ pc'[t] = "idle"

\* Thread t enters method m in this step
Enters(t, m) == pc[t] = "idle" /\ op'[t] = m

\* The principals queued in `list`: ids in order of first occurrence, those
\* that still resolve
RECURSIVE Dedup(_)
Dedup(s) ==
    IF s = <<>> THEN <<>>
    ELSE LET r == Dedup(SubSeq(s, 1, Len(s) - 1))
         IN  IF \E i \in DOMAIN r : r[i] = s[Len(s)] THEN r ELSE Append(r, s[Len(s)])

Queued(list) ==
    SelectSeq(Dedup([i \in DOMAIN list |-> Decode(list[i])]), LAMBDA u : u \in users)

\* C1: mutual exclusion. No two distinct principals have both had acquire
\* return success without a release or a lease expiry of the first in
\* between: whenever lock_camera returns True for a user, no other user is
\* the owner (its acquire returned True, lease live, no release since).
C1_MutualExclusion ==
    [][\A t \in Threads :
        (pc[t] = "lock_lrem" /\ Returns(t)) => owner \in {None, usr[t]}]_vars

\* C4: no duplicates. In every reachable state each principal id occurs at
\* most once in the waiting list.
C4_NoDuplicates == \A u \in Users : Count(wl, u) <= 1

\* C5: the holder is never queued. In every state in which no call is in
\* progress the recorded holder does not appear in the waiting list.
C5_HolderNotQueued ==
    ((\A t \in Threads : pc[t] = "idle") /\ holder # None) => Count(wl, holder) = 0

\* C8: has_access(principal) returns true exactly when the resource is
\* Unlocked or the principal is the recorded holder, false otherwise, and
\* changes neither the holder record, nor its expiry, nor the waiting list,
\* and sends no notification.
C8_HasAccessReadOnly ==
    [][last'.op = "has_access" =>
        /\ last'.ret = (IF holder = None \/ holder = last'.usr THEN "True" ELSE "False")
        /\ last'.out = <<>>
        /\ ~last'.cleared
        /\ UNCHANGED <<holder, ttl, wl>>]_vars

\* C8 witness: has_access has answered False to a principal that is not the
\* holder while others wait; nothing else was in progress
C8_Witness ==
    /\ last.op = "has_access" /\ last.ret = "False"
    /\ holder \notin {None, last.usr}
    /\ wl # <<>>

\* C10: the coordinator never raises on contention. No call ends by
\* raising; a request_access whose holder cannot be resolved skips the
\* notification and returns denied.
C10_NeverRaises == last.ret # "AttributeError"

\* C2: while P holds R, acquire(Q) by another principal returns denied, leaves
\* P the holder and Q is in the waiting list exactly once afterwards;
\* acquire(P) by the holder returns success, leaves P the holder and does
\* not put P in the waiting list.
C2_DeniedQueuedOnce ==
    [][\A t \in Threads :
        /\ (Enters(t, "lock_camera") /\ holder \notin {None, usr'[t]})
              => pc'[t] = "wl_lrange" /\ holder' = holder
        /\ (op[t] = "lock_camera" /\ pc[t] = "wl_rpush" /\ Moves(t)
                /\ holder \notin {None, usr[t]})
              => /\ last'.ret = "False"
                 /\ holder' = holder
                 /\ Count(wl', usr[t]) = 1
        /\ (Enters(t, "lock_camera") /\ holder = usr'[t])
              => pc'[t] = "lock_set" /\ holder' = holder
        /\ (op[t] = "lock_camera" /\ pc[t] = "lock_set" /\ Moves(t) /\ holder = usr[t])
              => holder' = usr[t]
        /\ (op[t] = "lock_camera" /\ pc[t] = "lock_lrem" /\ Moves(t) /\ holder = usr[t])
              => /\ last'.ret = "True"
                 /\ holder' = usr[t]
                 /\ Count(wl', usr[t]) = 0]_vars

\* C3: after release by the holder the resource is Unlocked, every principal
\* that was queued has been sent exactly one CAMERA_AVAILABILITY push, in
\* the order queued, and the waiting list is empty.
C3_ReleaseNotifiesAndClears ==
    [][\A t \in Threads :
        /\ (pc[t] = "unlock_delete" /\ Moves(t)) => holder' = None
        /\ (pc[t] = "notify" /\ Moves(t))
              => last'.out = [i \in DOMAIN Queued(wl) |->
                                Push(Queued(wl)[i], "CAMERA_AVAILABILITY")]
        /\ (pc[t] = "unlock_lrem" /\ Returns(t)) => wl' = <<>>]_vars

\* C6: release by a principal that is not the holder leaves the holder and
\* its lease unchanged, sends no notification, removes the caller's entry
\* from the waiting list and leaves the other entries and their order.
C6_NonHolderRelease ==
    [][\A t \in Threads :
        /\ (Enters(t, "unlock_camera") /\ holder # usr'[t])
              => /\ pc'[t] = "unlock_skip"
                 /\ last'.out = <<>>
                 /\ UNCHANGED <<holder, ttl, wl>>
        /\ (pc[t] = "unlock_skip" /\ Returns(t))
              => /\ last'.out = <<>> /\ ~last'.cleared
                 /\ UNCHANGED <<holder, ttl>>
                 /\ wl' = SelectSeq(wl, LAMBDA e : Decode(e) # usr[t])]_vars

\* C6 witness: a release by a non-holder has returned; it removed the
\* caller's entry, another principal still holds and others still wait
C6_Witness ==
    /\ last.op = "unlock_camera" /\ last.ret = "None" /\ ~last.cleared
    /\ last.removed >= 1
    /\ holder \notin {None, last.usr}
    /\ wl # <<>>

\* C7: lazy lease expiry. Once the lease of the holder has run out (and the
\* key has not been set again) the resource is Unlocked: the next acquire
\* by any principal takes the granting branch, which makes the caller the
\* holder with a fresh lease and returns success, and the next has_access
\* by any principal returns true.
C7_LazyLeaseExpiry ==
    [][\A t \in Threads :
        /\ lapsed' # None => holder' = None
        /\ (lapsed # None /\ (Enters(t, "lock_camera") \/ Enters(t, "request_access")))
              => pc'[t] = "lock_set"
        /\ (pc[t] = "lock_set" /\ Moves(t))
              => holder' = usr[t] /\ ttl' = LeaseMinutes /\ pc'[t] = "lock_lrem"
        /\ (pc[t] = "lock_lrem" /\ Moves(t)) => last'.ret = "True"
        /\ (lapsed # None /\ last'.op = "has_access") => last'.ret = "True"]_vars

\* C7 witness: the lease of one principal has run out; a second principal's
\* acquire has taken the granting branch since and a third principal has
\* just been answered True by has_access
C7_Witness ==
    /\ lapsed # None
    /\ \E t \in Threads : pc[t] = "lock_set" /\ usr[t] # lapsed
    /\ last.op = "has_access" /\ last.ret = "True" /\ last.usr # lapsed
    /\ \A t \in Threads : usr[t] # last.usr

\* C9: request_access(B) is acquire(B) plus a notification: when it returns
\* success nothing is pushed; when it returns denied B has been queued and
\* exactly one CAMERA_ACCESS_REQUEST has been pushed, to the holder it read.
\* In particular the calls acquire(A); request_access(B); release(A), made
\* one after the other from Unlocked, give: A holder; B denied, queued and A
\* notified; then R Unlocked, B notified of availability and the waiting
\* list empty.
C9_RequestAccessScenario ==
    [][/\ \A t \in Threads :
            /\ (op[t] = "request_access" /\ pc[t] = "lock_lrem" /\ Returns(t))
                  => last'.ret = "True" /\ last'.out = <<>>
            /\ (op[t] = "request_access" /\ pc[t] = "wl_rpush" /\ Moves(t))
                  => Count(wl', usr[t]) >= 1
            /\ (pc[t] = "req_send" /\ Returns(t) /\ last'.ret = "False")
                  => last'.out = <<Push(cur[t], "CAMERA_ACCESS_REQUEST")>>
       /\ (scen.n = 0 /\ scen'.n = 1)
            => last'.ret = "True" /\ holder' = scen'.a /\ wl' = <<>>
       /\ (scen.n = 1 /\ scen'.n = 2)
            => /\ last'.ret = "False"
               /\ last'.out = <<Push(scen'.a, "CAMERA_ACCESS_REQUEST")>>
               /\ holder' = scen'.a
               /\ wl' = <<Encode(scen'.b)>>
       /\ (scen.n = 2 /\ scen'.n = 3)
            => /\ holder' = None
               /\ scen'.pushed = <<Push(scen'.b, "CAMERA_AVAILABILITY")>>
               /\ wl' = <<>>]_vars

\* C11: first-in-first-served. When the resource is Unlocked and principals
\* are waiting, the acquire that is granted next is the one of the principal
\* queued earliest: an acquire (lock_camera, or the one request_access
\* starts with) that reads an absent holder key while the waiting list is
\* not empty takes the granting branch only for the head of the list.
C11_FirstInFirstServed ==
    [][\A t \in Threads :
        ((Enters(t, "lock_camera") \/ Enters(t, "request_access"))
            /\ holder = None /\ Queued(wl) # <<>> /\ pc'[t] = "lock_set")
          => usr'[t] = Queued(wl)[1]]_vars

\* C12: get_waiting_list returns the principals of the queued ids that still
\* resolve, in the order of the list, and changes neither the list nor the
\* holder record nor its expiry.
C12_WaitingListQueryFifo ==
    [][last'.op = "get_waiting_list" =>
        /\ last'.out = [i \in DOMAIN Queued(wl) |-> Push(Queued(wl)[i], "ROW")]
        /\ UNCHANGED <<holder, ttl, wl>>]_vars

\* C17: no lost wake-up. A principal whose acquire is being denied (it has
\* read another principal as holder and is about to be queued and answered
\* False) when the holder's release fans out is among those sent
\* CAMERA_AVAILABILITY by that release, whatever the interleaving.
C17_NoLostWakeup ==
    [][\A t \in Threads :
        (pc[t] = "notify" /\ Moves(t))
          => \A t2 \in Threads \ {t} :
                (pc[t2] \in {"wl_lrange", "wl_rpush"} /\ usr[t2] \in users)
                  => \E i \in DOMAIN last'.out :
                        last'.out[i] = Push(usr[t2], "CAMERA_AVAILABILITY")]_vars

\* C18: lease expiry changes only the holder record. The step in which the
\* lease of a held lock runs out leaves the waiting list as it was and sends
\* nothing.
C18_LeaseExpiryFrame ==
    [][(holder # None /\ lapsed' = holder /\ holder' = None /\ lapsed' # lapsed)
          => /\ wl' = wl
             /\ last'.out = <<>>
             /\ UNCHANGED <<users, pc>>]_vars

\* C18 witness: the lease of a holder has just run out while principals
\* wait; they are still queued and nothing was sent
C18_Witness ==
    /\ lapsed # None /\ holder = None
    /\ last = NoCall
    /\ Len(wl) = MaxWaiting
    /\ \A t \in Threads : pc[t] = "idle"

\* C19: current_user changes the lock state in one case only. When the key
\* is absent, or the holder resolves, it changes nothing; the holder record
\* it clears is one whose id does not resolve, and it then returns None,
\* sends nothing and leaves the waiting list.
C19_CurrentUserClearsOnlyStale ==
    [][\A t \in Threads :
        /\ ((Enters(t, "current_user") \/ last'.op = "current_user" \/ pc[t] = "cu_filter")
                /\ Moves(t) /\ pc[t] # "cu_delete")
              => UNCHANGED <<holder, ttl, wl>> /\ last'.out \in {<<>>, <<Push(cur[t], "ROW")>>}
        /\ (pc[t] = "cu_delete" /\ Moves(t))
              => /\ holder \notin users
                 /\ holder' = None
                 /\ wl' = wl
                 /\ last'.ret = "None" /\ last'.out = <<>>]_vars

\* Thread t takes this step of an authenticate()
AMoves(t) == apc'[t] # apc[t]

\* C13: idempotent provisioning. Every resolution (middleware scheme for an
\* asset, health-exchange scheme) returns the principal of that asset, resp.
\* the one with the configured exchange username, and none ends in an error
\* of the provisioning write; a row is written only when there was none;
\* no two principals are linked to one asset or carry the same username.
C13_IdempotentProvisioning ==
    [][/\ alast'.ret # "IntegrityError"
       /\ (alast'.ret = "User" /\ alast'.scheme = "middleware")
             => alast'.user = AssetUser(alast'.asset)
       /\ (alast'.ret = "User" /\ alast'.scheme = "abdm") => alast'.user = ABDMUser
       /\ alast'.ret = "User"
             => alast'.user \in arows' /\ (alast'.wrote <=> alast'.user \notin arows)
       /\ \A r1, r2 \in arows' :
             r1 # r2 => r1.username # r2.username /\ (r1.asset = "" \/ r1.asset # r2.asset)]_vars

\* C14: facility scope. Middleware authentication returns a principal only
\* for a token whose asset belongs to the facility of the X-Facility-Id
\* header; when the asset belongs to another facility the resolver raises
\* the authentication error InvalidToken and no User row is written.
C14_FacilityScope ==
    [][/\ (alast'.scheme = "middleware" /\ alast'.ret = "User")
             => AssetFacility[alast'.asset] = alast'.facility
       /\ \A t \in Threads :
             (apc[t] = "mw_get_user" /\ AMoves(t) /\ areq[t].asset \in Assets
                 /\ AssetFacility[areq[t].asset] # areq[t].facility)
               => /\ alast'.ret = "InvalidToken"
                  /\ apc'[t] = "idle"
                  /\ arows' = arows]_vars

\* C14 witness: a token for an asset that already has its principal was
\* refused because it came with another facility's id
C14_Witness ==
    /\ alast.ret = "InvalidToken" /\ alast.detail = "Facility not connected to Asset"
    /\ alast.asset \in Assets /\ AssetFacility[alast.asset] # alast.facility
    /\ AssetUser(alast.asset) \in arows

\* C15: in both validators whatever the key fetch, the JWK parsing or the
\* verification raises comes out as InvalidToken: no other exception leaves
\* get_validated_token, the resolver (get_user) is not entered and no User
\* row is written.
C15_ValidationFailureIsInvalid ==
    [][\A t \in Threads :
        (apc[t] \in {"mw_validate", "abdm_validate"} /\ AMoves(t))
          => /\ alast'.ret \notin Exceptions
             /\ alast'.exc # ""
                   => /\ alast'.ret = "InvalidToken"
                      /\ apc'[t] = "idle"
                      /\ arows' = arows]_vars

\* C15 witness: the key set could not be fetched for a middleware request
\* and the caller got InvalidToken
C15_Witness ==
    /\ alast.scheme = "middleware" /\ alast.exc = "ConnectionError"
    /\ alast.ret = "InvalidToken"
    /\ \A t \in Threads : apc[t] # "mw_get_user"

\* The words of a byte string, from its bytes: where they start, and whether
\* the first is the scheme word alone
WordStarts(b) == {i \in DOMAIN b : b[i] # SP /\ (i = 1 \/ b[i - 1] = SP)}

StartsWithScheme(b) ==
    /\ WordStarts(b) # {}
    /\ LET i == CHOOSE k \in WordStarts(b) : \A j \in WordStarts(b) : k <= j
       IN  b[i] = "Middleware_Bearer" /\ (i = Len(b) \/ b[i + 1] = SP)

\* C16 as stated: a header that is empty, has another scheme word, or has
\* not exactly two space-delimited parts makes authenticate return None
\* without raising.
C16_MalformedFallsThrough ==
    [][(alast'.scheme = "middleware" /\ alast'.header.present
            /\ (~StartsWithScheme(alast'.header.bytes)
                  \/ Cardinality(WordStarts(alast'.header.bytes)) # 2))
          => alast'.ret = "None"]_vars

\* C16 as amended: a header that is empty or starts with another scheme
\* word makes authenticate return None without raising; a header that
\* starts with the Middleware_Bearer word and has not exactly two
\* space-delimited parts makes it raise AuthenticationFailed.
C16_HeaderShape ==
    [][(alast'.scheme = "middleware" /\ alast'.header.present)
          => LET b == alast'.header.bytes
             IN  /\ ~StartsWithScheme(b) => alast'.ret = "None"
                 /\ (StartsWithScheme(b) /\ Cardinality(WordStarts(b)) # 2)
                       => /\ alast'.ret = "AuthenticationFailed"
                          /\ alast'.detail = "bad_authorization_header"]_vars

\* C16 witness: a header of the scheme with three parts has been refused
C16_Witness ==
    /\ alast.header.present /\ StartsWithScheme(alast.header.bytes)
    /\ Cardinality(WordStarts(alast.header.bytes)) = 3
    /\ alast.ret = "AuthenticationFailed"

====
